---- MODULE Spec2Model ----
(***************************************************************************)
(* HelloBuddy rewards platform: the settlement engine (submit-click), the  *)
(* withdrawal processor (withdraw / process withdrawal) and the session    *)
(* lifecycle, modelled statement by statement over a MySQL/InnoDB store.   *)
(*                                                                         *)
(* Money is counted in thousandths of a rupee ("mills"), so that a         *)
(* DECIMAL(10,2) column holds multiples of 10 and a request amount with    *)
(* more than two decimals is representable.                                *)
(*                                                                         *)
(* Storage model.  Every handler runs its statements one await at a time.  *)
(* A plain SELECT is a non-locking read of committed data.  INSERT,        *)
(* UPDATE and DELETE take row locks that are held until commit or          *)
(* rollback; an INSERT also takes shared locks on the parent rows its      *)
(* foreign keys refer to.  The writes of a transaction are collected in    *)
(* its write set w and reach the committed tables at commit; a rollback    *)
(* discards them.  A statement that needs a lock held by another           *)
(* transaction waits, and may be ended by InnoDB with a deadlock or        *)
(* lock-wait-timeout error.                                                *)
(***************************************************************************)
EXTENDS Integers, Sequences, FiniteSets, TLC

\* ---------------------------------------------------------------- bounds
NumUsers == 2
NumPayees == 1
NumPosts == 1
MaxReq == 2
MaxLimit == 2
MaxWithdrawals == 2
MaxTime == 9
NumTokens == 2
MaxJobs == 6
NumEmails == 2
NumHandles == 2
NumPermCodes == 2
NumCodeValues == 1
MaxCodes == 2
MaxClock == 3
ClockStep == 5
MaxVerify == 2

Users == 1..NumUsers
Posts == 1..NumPosts
Req == 1..MaxReq
\* the users that ask for withdrawals
Payees == {u \in Users : u <= NumPayees}
Emails == 1..NumEmails
PermCodes == 1..NumPermCodes

\* ------------------------------------------------------------- constants
\* one hundredth of a rupee, the unit of a DECIMAL(x,2) column, in mills
Cent == 10
\* posts.reward_amount of the posts of the model: 0.15 rupee
Reward == 15 * Cent
\* a whole rupee amount in mills
Rupees(n) == n * 100 * Cent
\* INTERVAL 7 DAY, 7 * 24 * 60 * 60 * 1000 ms: the session window, in days
SessionDays == 7
\* const batch = emailQueue.splice(0, 5)
BatchSize == 5
\* processingEmails.size >= 5
ConcurrencyCap == 5
\* if (emailJob.retries < 3)
RetryCeiling == 3
\* WHERE is_active = TRUE AND user_count < 1000
Capacity == 1000
\* new Date(Date.now() + 15 * 60 * 1000), in minutes
RegisterCodeLife == 15
\* new Date(Date.now() + 10 * 60 * 1000), in minutes
LoginCodeLife == 10

\* ------------------------------------------------------------- variables
VARIABLES
  posts,        \* table posts: id -> row (exists = FALSE: no such row)
  clicks,       \* table user_clicks: set of rows
  earnings,     \* column users.earnings: user id -> mills
  withdrawals,  \* table withdrawals: sequence of rows, id = index
  sessions,     \* table sessions: token -> row
  now,          \* the clock, in days
  req,          \* the transactional requests in flight, per slot
  sreq,         \* the request passing the session middleware, if any
  resp,         \* the response sent in the last step, if any
  settled,      \* history: number of committed settlements per user, post
  emailQueue,   \* the array emailQueue: job ids, oldest first
  processingEmails,  \* the set processingEmails: ids being dispatched
  mail,         \* the job objects by id, with the history of their sends
  accounts,     \* table users, registration columns: email -> row
  batches,      \* table batches: set of rows
  codes,        \* table verification_codes: set of rows
  codeSeq,      \* the AUTO_INCREMENT counter of verification_codes
  clock,        \* the clock of the one-time codes, in minutes
  spent,        \* history: the codes a verification has accepted
  vreq,         \* the verify requests between their SELECT and commit
  userCache     \* the Map userCache: permanent code -> cached user id, 0: none

vars == <<posts, clicks, earnings, withdrawals, sessions, now, req, sreq,
          resp, settled, emailQueue, processingEmails, mail, accounts,
          batches, codes, codeSeq, clock, spent, vreq, userCache>>

\* ---------------------------------------------------------------- money
\* MySQL stores a value into a DECIMAL(x,2) column rounded half away from
\* zero to two decimals.
Round2(x) ==
  LET a == IF x < 0 THEN 0 - x ELSE x
      q == ((a + (Cent \div 2)) \div Cent) * Cent
  IN IF x < 0 THEN 0 - q ELSE q

\* ------------------------------------------------------------- requests
NoRow == [reward |-> 0, click_count |-> 0, click_limit |-> 0,
          auto_delete_enabled |-> FALSE]

\* the fields of the body of submit-click other than postId
NoBody == [socialLink |-> 0, autoApprove |-> FALSE, reward |-> 0]

Idle == [op |-> "none", pc |-> "idle", user |-> 0, arg |-> 0, amount |-> 0,
         status |-> "", notes |-> "", row |-> NoRow, body |-> NoBody,
         w |-> {}, locks |-> {}, stamp |-> 0, late |-> FALSE,
         raced |-> FALSE, verified |-> FALSE]
\* late and raced are history fields: whether the target of the request was
\* already gone (post) or resolved (withdrawal) when it arrived, and whether
\* its post was deleted by another request while it was in flight;
\* verified is history too: the is_verified flag of the caller of
\* submit-click when the request arrived

\* a response: the operation, its caller and target, the outcome, the
\* autoDeleted flag of submit-click, and the statement at which it ended
NoResp == [op |-> "none", user |-> 0, arg |-> 0, outcome |-> "",
           autoDeleted |-> FALSE, at |-> "", late |-> FALSE,
           raced |-> FALSE, stamp |-> 0, body |-> NoBody,
           verified |-> FALSE]

Response(q, out, auto, at) ==
  [op |-> q.op, user |-> q.user, arg |-> q.arg, outcome |-> out,
   autoDeleted |-> auto, at |-> at, late |-> q.late, raced |-> q.raced,
   stamp |-> 0, body |-> q.body, verified |-> q.verified]

\* a lock is <<mode, table, key1, key2>>
ClickLocks(p) == {<<"X", "user_clicks", u, p>> : u \in Users}

\* another transaction holds a lock that conflicts with lock l
Conflicts(r, l) ==
  \E o \in Req \ {r} : \E h \in req[o].locks :
     /\ h[2] = l[2] /\ h[3] = l[3] /\ h[4] = l[4]
     /\ (h[1] = "X" \/ l[1] = "X")

\* the locks the next statement of request r has to acquire
NeedLocks(r) ==
  LET q == req[r] IN
  CASE q.op = "click" /\ q.pc = "insert" ->
         {<<"X", "user_clicks", q.user, q.arg>>,
          <<"S", "users", q.user, 0>>, <<"S", "posts", q.arg, 0>>}
    [] q.op = "click" /\ q.pc = "credit" -> {<<"X", "users", q.user, 0>>}
    [] q.op = "click" /\ q.pc = "count" -> {<<"X", "posts", q.arg, 0>>}
    [] q.op = "click" /\ q.pc = "delClicks" -> ClickLocks(q.arg)
    [] q.op = "click" /\ q.pc = "delPost" -> {<<"X", "posts", q.arg, 0>>}
    [] q.op = "withdraw" /\ q.pc = "insert" -> {<<"S", "users", q.user, 0>>}
    [] q.op = "withdraw" /\ q.pc = "debit" -> {<<"X", "users", q.user, 0>>}
    [] q.op = "process" /\ q.pc = "refund" -> {<<"X", "users", q.user, 0>>}
    [] q.op = "process" /\ q.pc = "update" ->
         {<<"X", "withdrawals", q.arg, 0>>}
    [] OTHER -> {}

Blocked(r) == \E l \in NeedLocks(r) : Conflicts(r, l)

Tokens == 1..NumTokens

SIdle == [op |-> "none", pc |-> "idle", token |-> 0, passes |-> 0,
          stamp |-> 0, late |-> FALSE]

\* no row for a token: never issued, or issued and deleted since
NoSession(wasIssued) == [exists |-> FALSE, issued |-> wasIssued,
                         user_id |-> 0, expires_at |-> 0]

InitSessionRows == [t \in Tokens |-> NoSession(FALSE)]

\* slot r serves no request
Free(r) == req[r].pc = "idle"

\* connection.rollback(): the write set that survives a rollback
RollbackKeepsWrites(w) == w
Rollback(w) == {}

\* ------------------------------------------------- applying a write set
ClicksOf(u, p) == {c \in clicks : c.user = u /\ c.post = p}

ApplyClicks(q, w) ==
  IF "delClicks" \in w \/ "delPost" \in w
    THEN {c \in clicks : c.post # q.arg}
    ELSE IF "click" \in w
      THEN clicks \cup {[user |-> q.user, post |-> q.arg,
                         reward |-> q.row.reward,
                         n |-> Cardinality(ClicksOf(q.user, q.arg)) + 1]}
      ELSE clicks

ApplyPosts(q, w) ==
  IF "delPost" \in w
    THEN [posts EXCEPT ![q.arg].exists = FALSE]
    ELSE IF "count" \in w /\ posts[q.arg].exists
      THEN [posts EXCEPT ![q.arg].click_count = q.row.click_count + 1]
      ELSE posts

ApplyEarnings(q, w) ==
  IF "credit" \in w
    THEN [earnings EXCEPT ![q.user] = Round2(@ + q.row.reward)]
    ELSE IF "debit" \in w \/ "refund" \in w
      THEN [earnings EXCEPT ![q.user] =
              Round2(@ - (IF "debit" \in w THEN q.amount ELSE 0)
                       + (IF "refund" \in w THEN q.amount ELSE 0))]
      ELSE earnings

ApplyWithdrawals(q, w) ==
  IF "wd" \in w
    THEN Append(withdrawals,
                [user_id |-> q.user, amount |-> Round2(q.amount),
                 status |-> "pending",
                 admin_notes |-> "", processed_at |-> -1,
                 before |-> earnings[q.user], clean |-> TRUE,
                 resolved |-> 0, refunds |-> 0])
    ELSE IF "wstatus" \in w
      THEN [withdrawals EXCEPT ![q.arg].status = q.status,
                               ![q.arg].admin_notes = q.notes,
                               ![q.arg].processed_at = q.stamp,
                               ![q.arg].resolved = @ + 1,
                               ![q.arg].refunds =
                                  IF "refund" \in w THEN @ + 1 ELSE @]
      ELSE withdrawals
\* before, clean, resolved and refunds are history fields of a withdrawal:
\* the balance its request found, whether the wallet was left alone since
\* then while it was pending, and how many committed resolutions and
\* refunds it has had

\* a commit that changes the wallet of a user marks the pending
\* withdrawals of that user (other than its own) as no longer clean
Touch(ws, q, w) ==
  [i \in DOMAIN ws |->
     IF /\ w \cap {"credit", "debit", "refund"} # {}
        /\ ws[i].user_id = q.user /\ ws[i].status = "pending"
        /\ ~("wstatus" \in w /\ i = q.arg)
        /\ i \in DOMAIN withdrawals
       THEN [ws[i] EXCEPT !.clean = FALSE]
       ELSE ws[i]]

\* the request ends: its transaction keeps the write set w (all of it at
\* commit, Rollback of it on a failure path), releases its locks, and the
\* response is sent
EndRequest(r, w, out, auto) ==
  /\ clicks' = ApplyClicks(req[r], w)
  /\ posts' = ApplyPosts(req[r], w)
  /\ earnings' = ApplyEarnings(req[r], w)
  /\ withdrawals' = Touch(ApplyWithdrawals(req[r], w), req[r], w)
  /\ req' = [o \in Req |->
       IF o = r
         THEN Idle
         ELSE IF /\ "delPost" \in w /\ req[o].op = "click"
                 /\ req[o].arg = req[r].arg
           THEN [req[o] EXCEPT !.raced = TRUE]
           ELSE req[o]]
  /\ resp' = Response(req[r], out, auto, req[r].pc)

Step(r, pc2, tags) ==
  /\ req' = [req EXCEPT ![r].pc = pc2,
                        ![r].w = @ \cup tags,
                        ![r].locks = @ \cup NeedLocks(r)]
  /\ resp' = NoResp
  /\ UNCHANGED <<posts, clicks, earnings, withdrawals>>

MailVars == <<emailQueue, processingEmails, mail>>

AuthVars == <<accounts, batches, codes, codeSeq, clock, spent, vreq,
              userCache>>

OtherVars == <<sessions, now, sreq, MailVars, AuthVars>>

\* ====================================================== submit-click
\* UNIQUE KEY unique_user_post (user_id, post_id): the insert of a second
\* row for the pair is refused with a duplicate-key error
UniqueKeyDropped(u, p) == FALSE
UniqueViolation(u, p) == ClicksOf(u, p) # {}

\* FOREIGN KEY (post_id) REFERENCES posts(id): the parent row must exist
ForeignKeyViolation(p) == ~posts[p].exists

\* the row of users with id u, if any
HasUser(u) == \E e \in Emails : accounts[e].exists /\ accounts[e].id = u

\* users.is_verified of the row with id u
Verified(u) ==
  \E e \in Emails : /\ accounts[e].exists /\ accounts[e].id = u
                     /\ accounts[e].is_verified

\* the request of user u arrives with postId p and the other fields b of
\* the body; postId 0 stands for a body without postId
Arrive(r, u, p, b) ==
  /\ Free(r)
  /\ LET q == [Idle EXCEPT !.op = "click", !.pc = "selPost", !.user = u,
                           !.arg = p, !.body = b,
                           !.verified = Verified(u),
                           !.late = p \in Posts /\ ~posts[p].exists]
     IN IF p = 0
          THEN /\ resp' = Response(q, "400_required", FALSE, "validate")
               /\ UNCHANGED req
          ELSE /\ req' = [req EXCEPT ![r] = q]
               /\ resp' = NoResp
  /\ UNCHANGED <<posts, clicks, earnings, withdrawals, settled>>

\* the request arrives with nothing but postId in its body
ClickBegin(r, u, p) == Arrive(r, u, p, NoBody) /\ UNCHANGED OtherVars

\* if (!post.is_active)
PostInactiveNever(post) == FALSE
PostInactive(post) == ~post.is_active

\* the reward of the click: post.reward_amount of the row read
FrozenRewardOfBody(post, b) ==
  IF b.reward # 0 THEN b.reward ELSE post.reward_amount
FrozenReward(post, b) == post.reward_amount

\* SELECT ... FROM posts WHERE id = ?, and the two checks on its result
ClickSelectPost(r) ==
  LET q == req[r] IN
  /\ q.op = "click" /\ q.pc = "selPost"
  /\ IF ~posts[q.arg].exists
       THEN EndRequest(r, Rollback(q.w), "404_not_found", FALSE)
       ELSE IF PostInactive(posts[q.arg])
         THEN EndRequest(r, Rollback(q.w), "400_inactive", FALSE)
         ELSE /\ req' = [req EXCEPT ![r].pc = "selClicks",
                  ![r].row = [reward |-> FrozenReward(posts[q.arg], q.body),
                              click_count |-> posts[q.arg].click_count,
                              click_limit |-> posts[q.arg].click_limit,
                              auto_delete_enabled |->
                                 posts[q.arg].auto_delete_enabled]]
              /\ resp' = NoResp
  /\ UNCHANGED <<posts, clicks, earnings, withdrawals>>
  /\ UNCHANGED settled
  /\ UNCHANGED OtherVars

\* SELECT id FROM user_clicks WHERE user_id = ? AND post_id = ?
ClickSelectExisting(r) ==
  LET q == req[r] IN
  /\ q.op = "click" /\ q.pc = "selClicks"
  /\ IF ClicksOf(q.user, q.arg) # {}
       THEN EndRequest(r, Rollback(q.w), "400_duplicate", FALSE)
       ELSE Step(r, "insert", {})
  /\ UNCHANGED settled
  /\ UNCHANGED OtherVars

\* INSERT INTO user_clicks ...; a storage error goes to the catch block
ClickInsert(r) ==
  LET q == req[r] IN
  /\ q.op = "click" /\ q.pc = "insert"
  /\ ~Blocked(r)
  /\ IF UniqueViolation(q.user, q.arg) \/ ForeignKeyViolation(q.arg)
       THEN EndRequest(r, Rollback(q.w), "500_failed", FALSE)
       ELSE Step(r, "credit", {"click"})
  /\ UNCHANGED settled
  /\ UNCHANGED OtherVars

\* UPDATE users SET earnings = earnings + ? WHERE id = ?
ClickCredit(r) ==
  /\ req[r].op = "click" /\ req[r].pc = "credit"
  /\ ~Blocked(r)
  /\ Step(r, "count", {"credit"})
  /\ UNCHANGED settled
  /\ UNCHANGED OtherVars

\* newClickCount = (post.click_count || 0) + 1, from the row read earlier
NewClickCount(q) == q.row.click_count + 1

\* post.auto_delete_enabled && post.click_limit && newClickCount >= limit
AutoDeleteDue(q) ==
  /\ q.row.auto_delete_enabled
  /\ q.row.click_limit # 0
  /\ NewClickCount(q) >= q.row.click_limit

\* UPDATE posts SET click_count = ? WHERE id = ?
ClickCount(r) ==
  /\ req[r].op = "click" /\ req[r].pc = "count"
  /\ ~Blocked(r)
  /\ Step(r, IF AutoDeleteDue(req[r]) THEN "delClicks" ELSE "commit",
          {"count"})
  /\ UNCHANGED settled
  /\ UNCHANGED OtherVars

\* DELETE FROM user_clicks WHERE post_id = ?
ClickDeleteClicks(r) ==
  /\ req[r].op = "click" /\ req[r].pc = "delClicks"
  /\ ~Blocked(r)
  /\ Step(r, "delPost", {"delClicks"})
  /\ UNCHANGED settled
  /\ UNCHANGED OtherVars

\* DELETE FROM posts WHERE id = ?
ClickDeletePost(r) ==
  /\ req[r].op = "click" /\ req[r].pc = "delPost"
  /\ ~Blocked(r)
  /\ Step(r, "commit", {"delPost"})
  /\ UNCHANGED settled
  /\ UNCHANGED OtherVars

\* connection.commit() and the success response
ClickCommit(r) ==
  LET q == req[r] IN
  /\ q.op = "click" /\ q.pc = "commit"
  /\ EndRequest(r, q.w, "200_ok", "delPost" \in q.w)
  /\ settled' = [settled EXCEPT ![q.user][q.arg] = @ + 1]
  /\ UNCHANGED OtherVars

\* a statement waiting for a lock is ended by InnoDB (deadlock victim or
\* lock wait timeout); the handler's catch block rolls back and answers 500
LockError(r) ==
  /\ req[r].pc # "idle"
  /\ Blocked(r)
  /\ EndRequest(r, Rollback(req[r].w), "500_failed", FALSE)
  /\ UNCHANGED settled
  /\ UNCHANGED OtherVars

\* ------------------------------------------------ the settlement system
NoPost == [exists |-> FALSE, reward_amount |-> 0, is_active |-> FALSE,
           click_count |-> 0, click_limit |-> 0,
           auto_delete_enabled |-> FALSE]

\* a post as the admin form creates it: no clicks yet, NULL limit = 0
NewPosts ==
  {[exists |-> TRUE, reward_amount |-> Reward, is_active |-> a,
    click_count |-> 0, click_limit |-> l, auto_delete_enabled |-> d] :
      a \in BOOLEAN, l \in 0..MaxLimit, d \in BOOLEAN}

Jobs == 1..MaxJobs

\* a job object before it is pushed: { id: uuidv4(), ..., retries: 0 }
NewJob == [pushed |-> FALSE, type |-> "none", email |-> 0, code |-> 0,
           retries |-> 0, attempts |-> 0, delivered |-> FALSE]
\* pushed, attempts and delivered are history: whether the job was ever
\* enqueued, how many times it was handed to the mailer, and whether the
\* mailer accepted it at least once

InitMail ==
  /\ emailQueue = <<>>
  /\ processingEmails = {}
  /\ mail = [j \in Jobs |-> NewJob]

\* a batch label as the sequence of its character codes: "A" = <<65>>
Label(c) == <<c>>
CodeA == 65
CodeZ == 90

NoAccount == [exists |-> FALSE, id |-> 0, is_verified |-> FALSE,
              instagram_id |-> 0,
              batch_letter |-> <<>>, permanent_login_code |-> 0]

\* the batches table when the labels "A" .. Label(last) exist, all full
\* but the last, which holds count users; members is history: the number
\* of rows of users that carry the label
BatchTable(last, count) ==
  {[letter |-> Label(c), is_active |-> TRUE,
    user_count |-> IF c = last THEN count ELSE Capacity,
    members |-> IF c = last THEN count ELSE Capacity] : c \in CodeA..last}

VSlots == 1..MaxVerify

\* a slot of the verify requests that serves none
VIdle == [op |-> "none", pc |-> "idle", email |-> 0, code |-> 0,
          code_id |-> 0, user_id |-> 0, permanent_login_code |-> 0,
          late |-> FALSE]

InitAuth ==
  /\ accounts = [e \in Emails |-> NoAccount]
  /\ batches = BatchTable(CodeA, 0)
  /\ codes = {}
  /\ codeSeq = 0
  /\ clock = 0
  /\ spent = {}
  /\ vreq = [s \in VSlots |-> VIdle]
  /\ userCache = [pc \in PermCodes |-> 0]

InitOther ==
  /\ InitAuth
  /\ InitMail
  /\ sessions = InitSessionRows
  /\ now = 0
  /\ sreq = SIdle
  /\ resp = NoResp

Init ==
  /\ posts \in [Posts -> NewPosts \cup {NoPost}]
  /\ clicks = {}
  /\ earnings = [u \in Users |-> 0]
  /\ withdrawals = <<>>
  /\ req = [r \in Req |-> Idle]
  /\ settled = [u \in Users |-> [p \in Posts |-> 0]]
  /\ InitOther

Next ==
  \/ \E r \in Req, u \in Users, p \in Posts \cup {0} : ClickBegin(r, u, p)
  \/ \E r \in Req : ClickSelectPost(r)
  \/ \E r \in Req : ClickSelectExisting(r)
  \/ \E r \in Req : ClickInsert(r)
  \/ \E r \in Req : ClickCredit(r)
  \/ \E r \in Req : ClickCount(r)
  \/ \E r \in Req : ClickDeleteClicks(r)
  \/ \E r \in Req : ClickDeletePost(r)
  \/ \E r \in Req : ClickCommit(r)
  \/ \E r \in Req : LockError(r)

Spec == Init /\ [][Next]_vars


\* ========================================================== withdraw
Methods == {"paytm", "amazon", "phonepe"}

\* const minAmounts = { amazon: 100, phonepe: 500 }; 0 stands for
\* minAmounts[method] === undefined, against which no amount is too small
MinAmount(m) ==
  CASE m = "amazon" -> Rupees(100)
    [] m = "phonepe" -> Rupees(500)
    [] OTHER -> 0

\* the amounts requested, in mills: negative, zero, 20.005 and 500.00
Amounts == {0 - Cent, 0, Rupees(20) + (Cent \div 2), Rupees(500)}

\* MIN_WITHDRAWAL_AMOUNT = 30 of the withdrawal form
GlobalMinimum == Rupees(30)

WithdrawInFlight == Cardinality({o \in Req : req[o].op = "withdraw"})

\* the request arrives and its body is validated; acct tells whether
\* accountDetails is present
WithdrawBegin(r, u, m, a, acct) ==
  /\ Free(r)
  /\ Len(withdrawals) + WithdrawInFlight < MaxWithdrawals
  /\ LET base == [Idle EXCEPT !.op = "withdraw", !.user = u, !.amount = a]
         out == IF a = 0 \/ ~acct THEN "400_required"
                ELSE IF a <= 0 THEN "400_invalid_amount"
                ELSE IF a < MinAmount(m) THEN "400_minimum"
                ELSE ""
     IN IF out # ""
          THEN /\ resp' = Response(base, out, FALSE, "validate")
               /\ UNCHANGED req
          ELSE /\ req' = [req EXCEPT ![r] = [base EXCEPT !.pc = "selEarnings"]]
               /\ resp' = NoResp
  /\ UNCHANGED <<posts, clicks, earnings, withdrawals, settled>>
  /\ UNCHANGED OtherVars

\* SELECT earnings FROM users WHERE id = ?, and the balance check
WithdrawSelect(r) ==
  LET q == req[r] IN
  /\ q.op = "withdraw" /\ q.pc = "selEarnings"
  /\ IF q.amount > earnings[q.user]
       THEN EndRequest(r, Rollback(q.w), "400_insufficient", FALSE)
       ELSE Step(r, "insert", {})
  /\ UNCHANGED settled
  /\ UNCHANGED OtherVars

\* INSERT INTO withdrawals (...) VALUES (..., 'pending', NOW())
WithdrawInsert(r) ==
  /\ req[r].op = "withdraw" /\ req[r].pc = "insert"
  /\ ~Blocked(r)
  /\ Step(r, "debit", {"wd"})
  /\ UNCHANGED settled
  /\ UNCHANGED OtherVars

\* UPDATE users SET earnings = earnings - ? WHERE id = ?
WithdrawDebit(r) ==
  /\ req[r].op = "withdraw" /\ req[r].pc = "debit"
  /\ ~Blocked(r)
  /\ Step(r, "commit", {"debit"})
  /\ UNCHANGED settled
  /\ UNCHANGED OtherVars

WithdrawCommit(r) ==
  /\ req[r].op = "withdraw" /\ req[r].pc = "commit"
  /\ EndRequest(r, req[r].w, "200_ok", FALSE)
  /\ UNCHANGED settled
  /\ UNCHANGED OtherVars

\* ================================================ process withdrawal
Statuses == {"approved", "declined", "pending"}
\* the admin's note; a withdrawal not yet resolved has note NULL, here ""
Notes == {"checked by admin"}

\* the admin's request arrives; only approved and declined are accepted
ProcessBegin(r, id, st, nt) ==
  /\ Free(r)
  /\ LET base == [Idle EXCEPT !.op = "process", !.arg = id, !.status = st,
                              !.notes = nt,
                              !.late = /\ id \in DOMAIN withdrawals
                                       /\ withdrawals[id].status # "pending"]
     IN IF st \notin {"approved", "declined"}
          THEN /\ resp' = Response(base, "400_status", FALSE, "validate")
               /\ UNCHANGED req
          ELSE /\ req' = [req EXCEPT ![r] = [base EXCEPT !.pc = "selPending"]]
               /\ resp' = NoResp
  /\ UNCHANGED <<posts, clicks, earnings, withdrawals, settled>>
  /\ UNCHANGED OtherVars

\* if (status === 'declined'): the amount goes back to the wallet
RefundAlways(q) == TRUE
RefundDue(q) == q.status = "declined"

\* SELECT w.* ... WHERE w.id = ? AND w.status = 'pending'
ProcessSelect(r) ==
  LET q == req[r] IN
  /\ q.op = "process" /\ q.pc = "selPending"
  /\ IF q.arg \notin DOMAIN withdrawals
        \/ withdrawals[q.arg].status # "pending"
       THEN EndRequest(r, Rollback(q.w), "404_processed", FALSE)
       ELSE /\ req' = [req EXCEPT
                 ![r].pc = IF RefundDue(q) THEN "refund" ELSE "update",
                 ![r].user = withdrawals[q.arg].user_id,
                 ![r].amount = withdrawals[q.arg].amount]
            /\ resp' = NoResp
  /\ UNCHANGED <<posts, clicks, earnings, withdrawals>>
  /\ UNCHANGED settled
  /\ UNCHANGED OtherVars

\* UPDATE users SET earnings = earnings + ? WHERE id = ?  (declined only)
ProcessRefund(r) ==
  /\ req[r].op = "process" /\ req[r].pc = "refund"
  /\ ~Blocked(r)
  /\ Step(r, "update", {"refund"})
  /\ UNCHANGED settled
  /\ UNCHANGED OtherVars

\* UPDATE withdrawals SET status = ?, processed_at = NOW(), admin_notes = ?
ProcessUpdate(r) ==
  /\ req[r].op = "process" /\ req[r].pc = "update"
  /\ ~Blocked(r)
  /\ req' = [req EXCEPT ![r].pc = "commit",
                        ![r].w = @ \cup {"wstatus"},
                        ![r].locks = @ \cup NeedLocks(r),
                        ![r].stamp = now]
  /\ resp' = NoResp
  /\ UNCHANGED <<posts, clicks, earnings, withdrawals, settled>>
  /\ UNCHANGED OtherVars

ProcessCommit(r) ==
  /\ req[r].op = "process" /\ req[r].pc = "commit"
  /\ EndRequest(r, req[r].w, "200_ok", FALSE)
  /\ UNCHANGED settled
  /\ UNCHANGED OtherVars

\* time passes
Tick ==
  /\ now < MaxTime
  /\ now' = now + 1
  /\ resp' = NoResp
  /\ UNCHANGED <<posts, clicks, earnings, withdrawals, sessions, req, sreq,
                 settled>>
  /\ UNCHANGED <<MailVars, AuthVars>>

\* -------------------------------------------------- the withdrawal system
\* wallets as settlements and admin edits leave them, in whole cents: 20.01
Balances == {Rupees(20) + Cent}

InitWithdraw ==
  /\ posts = [p \in Posts |-> NoPost]
  /\ clicks = {}
  /\ earnings \in [Users -> Balances]
  /\ withdrawals = <<>>
  /\ req = [r \in Req |-> Idle]
  /\ settled = [u \in Users |-> [p \in Posts |-> 0]]
  /\ InitOther

NextWithdraw ==
  \/ \E r \in Req, u \in Payees, m \in Methods, a \in Amounts,
        acct \in BOOLEAN : WithdrawBegin(r, u, m, a, acct)
  \/ \E r \in Req : WithdrawSelect(r)
  \/ \E r \in Req : WithdrawInsert(r)
  \/ \E r \in Req : WithdrawDebit(r)
  \/ \E r \in Req : WithdrawCommit(r)
  \/ \E r \in Req, id \in 1..MaxWithdrawals, st \in Statuses, nt \in Notes :
        ProcessBegin(r, id, st, nt)
  \/ \E r \in Req : ProcessSelect(r)
  \/ \E r \in Req : ProcessRefund(r)
  \/ \E r \in Req : ProcessUpdate(r)
  \/ \E r \in Req : ProcessCommit(r)
  \/ \E r \in Req : LockError(r)

SpecWithdraw == InitWithdraw /\ [][NextWithdraw]_vars


\* ============================================================ sessions
SessionVars == <<posts, clicks, earnings, withdrawals, req, settled, MailVars,
                 AuthVars>>

\* WHERE s.id = ? AND s.expires_at > NOW()  (the join with users always
\* finds the user of a session)
\* the tokens a request must be turned away with: none, unknown, logged
\* out (no row), or a row whose expiry has passed
StaleToken(t) ==
  \/ t \notin Tokens
  \/ ~sessions[t].exists
  \/ sessions[t].expires_at <= now

ValidSessionNoExpiry(t) == t \in Tokens /\ sessions[t].exists
ValidSession(t) ==
  /\ t \in Tokens
  /\ sessions[t].exists
  /\ sessions[t].expires_at > now

SessionUser(t) == IF t \in Tokens THEN sessions[t].user_id ELSE 0

SResponse(op, t, out, at, stamp, late) ==
  [NoResp EXCEPT !.op = op, !.user = SessionUser(t), !.arg = t,
                 !.outcome = out, !.at = at, !.stamp = stamp,
                 !.late = late]

\* a login succeeds: sessionId = uuidv4(), a token that no request has
\* presented before; it expires 7 days from now
CreateSession(t, u) ==
  /\ ~sessions[t].issued
  /\ sreq.token # t
  /\ sessions' = [sessions EXCEPT ![t] =
        [exists |-> TRUE, issued |-> TRUE, user_id |-> u,
         expires_at |-> now + SessionDays]]
  /\ resp' = NoResp
  /\ UNCHANGED <<now, sreq>>
  /\ UNCHANGED SessionVars

\* a request to /api/user/* (one pass of sessionMiddleware, then the
\* route's sessionAuth) or to /api/admin/* (two passes of
\* sessionMiddleware) arrives with token t; t = 0 stands for no cookie and
\* no Authorization header
ApiBegin(t, kind) ==
  /\ sreq.pc = "idle"
  /\ IF t = 0
       THEN /\ resp' = SResponse(kind, t, "401_no_session", "mwBegin", now,
                                 TRUE)
            /\ UNCHANGED sreq
       ELSE /\ sreq' = [SIdle EXCEPT !.op = kind, !.token = t,
                          !.pc = "mwSelect", !.late = StaleToken(t),
                          !.passes = IF kind = "admin" THEN 2 ELSE 1]
            /\ resp' = NoResp
  /\ UNCHANGED <<sessions, now>>
  /\ UNCHANGED SessionVars

\* sessionMiddleware: SELECT s.*, u.* FROM sessions s JOIN users u ...
MwSelect ==
  /\ sreq.pc = "mwSelect"
  /\ IF ValidSession(sreq.token)
       THEN /\ sreq' = [sreq EXCEPT !.pc = "mwExtend"]
            /\ resp' = NoResp
       ELSE /\ sreq' = SIdle
            /\ resp' = SResponse(sreq.op, sreq.token, "401_invalid_session",
                                 "mwSelect", now, sreq.late)
  /\ UNCHANGED <<sessions, now>>
  /\ UNCHANGED SessionVars

\* sessionMiddleware: UPDATE sessions SET expires_at = DATE_ADD(NOW(),
\* INTERVAL 7 DAY) WHERE id = ?, then next(): the second pass for an admin
\* route, sessionAuth for a user route, the route's handler otherwise
MwExtend ==
  /\ sreq.pc = "mwExtend"
  /\ sessions' = IF sessions[sreq.token].exists
                   THEN [sessions EXCEPT
                           ![sreq.token].expires_at = now + SessionDays]
                   ELSE sessions
  /\ IF sreq.passes > 1
       THEN /\ sreq' = [sreq EXCEPT !.pc = "mwSelect",
                                    !.passes = sreq.passes - 1]
            /\ resp' = NoResp
       ELSE IF sreq.op = "user"
         THEN /\ sreq' = [sreq EXCEPT !.pc = "authSelect", !.stamp = now]
              /\ resp' = NoResp
         ELSE /\ sreq' = SIdle
              /\ resp' = SResponse(sreq.op, sreq.token, "200_handler",
                                   "mwExtend", now, sreq.late)
  /\ UNCHANGED now
  /\ UNCHANGED SessionVars

\* sessionAuth of routes/user.js: the same SELECT, no UPDATE
AuthSelect ==
  /\ sreq.pc = "authSelect"
  /\ sreq' = SIdle
  /\ resp' = SResponse(sreq.op, sreq.token,
                       IF ValidSession(sreq.token) THEN "200_handler"
                       ELSE "401_invalid_session", "authSelect", sreq.stamp,
                       sreq.late)
  /\ UNCHANGED <<sessions, now>>
  /\ UNCHANGED SessionVars

\* GET /api/auth/me: the SELECT, and the user projection as the answer
Me(t) ==
  /\ resp' = SResponse("me", t, IF t = 0 THEN "401_no_session"
                                ELSE IF ValidSession(t) THEN "200_user"
                                ELSE "401_invalid_session", "me", now,
                     StaleToken(t))
  /\ UNCHANGED <<sessions, now, sreq>>
  /\ UNCHANGED SessionVars

\* DELETE FROM sessions WHERE id = ?
DeleteNothing(t) == sessions
DeleteSession(t) ==
  IF t \in Tokens /\ sessions[t].exists
    THEN [sessions EXCEPT ![t] = NoSession(TRUE)]
    ELSE sessions

\* POST /api/auth/logout: the DELETE if a token is presented, and the
\* same answer in every case
Logout(t) ==
  /\ sessions' = DeleteSession(t)
  /\ resp' = SResponse("logout", t, "200_logged_out", "logout", now,
                       StaleToken(t))
  /\ UNCHANGED <<now, sreq>>
  /\ UNCHANGED SessionVars

\* cleanupExpiredData, every 30 minutes:
\* DELETE FROM sessions WHERE expires_at < DATE_SUB(NOW(), INTERVAL 1 DAY)
CleanupExpired ==
  /\ \E t \in Tokens : sessions[t].exists /\ sessions[t].expires_at < now - 1
  /\ sessions' = [t \in Tokens |->
        IF sessions[t].exists /\ sessions[t].expires_at < now - 1
          THEN NoSession(TRUE)
          ELSE sessions[t]]
  /\ resp' = NoResp
  /\ UNCHANGED <<now, sreq>>
  /\ UNCHANGED SessionVars

\* the user whose login is answered with token t
TokenUser(t) == ((t - 1) % NumUsers) + 1

InitSession ==
  /\ posts = [p \in Posts |-> NoPost]
  /\ clicks = {}
  /\ earnings = [u \in Users |-> 0]
  /\ withdrawals = <<>>
  /\ req = [r \in Req |-> Idle]
  /\ settled = [u \in Users |-> [p \in Posts |-> 0]]
  /\ InitOther

NextSession ==
  \/ \E t \in Tokens : CreateSession(t, TokenUser(t))
  \/ \E t \in Tokens \cup {0}, kind \in {"user", "admin"} : ApiBegin(t, kind)
  \/ MwSelect
  \/ MwExtend
  \/ AuthSelect
  \/ \E t \in Tokens \cup {0} : Me(t)
  \/ \E t \in Tokens \cup {0} : Logout(t)
  \/ CleanupExpired
  \/ Tick

SpecSession == InitSession /\ [][NextSession]_vars

\* ============================================================== claims
InFlight(r) == req[r].pc # "idle"

\* the posts a user has a committed settlement on
SettledPosts(u) == {p \in Posts : settled[u][p] >= 1}

\* the users with a committed settlement on a post
SettledUsers(p) == {u \in Users : settled[u][p] >= 1}

\* C1: for every user u and post p, whatever the interleaving of
\* submit-click requests, at most one click row of (u, p) is committed and
\* the wallet of u holds the reward of p at most once.
C1_NoDoubleSettlement ==
  \A u \in Users :
    /\ \A p \in Posts : /\ Cardinality(ClicksOf(u, p)) <= 1
                        /\ settled[u][p] <= 1
    /\ earnings[u] = Reward * Cardinality(SettledPosts(u))

\* two requests of one user for one post passed the duplicate check
\* together; one committed, the other was refused at its insert
C1_Witness ==
  /\ resp.op = "click" /\ resp.outcome = "500_failed" /\ resp.at = "insert"
  /\ Cardinality(ClicksOf(resp.user, resp.arg)) = 1
  /\ settled[resp.user][resp.arg] = 1
  /\ earnings[resp.user] = Reward

\* C3: a post with click limit N and auto-delete enabled is deleted, with
\* all its click rows, by the Nth successful settlement of distinct users,
\* which reports autoDeleted; every later submit-click for the post id is
\* answered NotFound and credits no wallet.
C3_AutoDeleteAtLimit ==
  /\ \A p \in Posts :
        /\ posts[p].exists
        /\ posts[p].auto_delete_enabled
        /\ posts[p].click_limit # 0
        => Cardinality(SettledUsers(p)) < posts[p].click_limit
  /\ resp.op = "click" /\ resp.autoDeleted
        => /\ ~posts[resp.arg].exists
           /\ \A c \in clicks : c.post # resp.arg
  /\ resp.op = "click" /\ resp.late => resp.outcome = "404_not_found"

\* C7: a submit-click that fails before its commit leaves the click rows,
\* the wallets and the post counters as they were; the three writes of a
\* settlement reach the tables only together, at its commit.
C7_NoPartialState ==
  [][/\ \A r \in Req :
          req[r].op = "click" /\ InFlight(r) /\ req'[r].pc = "idle"
          => LET q == req[r] IN
             IF resp'.outcome = "200_ok"
               THEN /\ earnings' = [earnings EXCEPT
                                      ![q.user] = @ + q.row.reward]
                    /\ IF resp'.autoDeleted
                         THEN /\ ~posts'[q.arg].exists
                              /\ \A c \in clicks' : c.post # q.arg
                         ELSE /\ \E c \in clicks' : /\ c.user = q.user
                                                     /\ c.post = q.arg
                              /\ posts'[q.arg].exists
                              /\ posts'[q.arg].click_count =
                                    q.row.click_count + 1
               ELSE UNCHANGED <<posts, clicks, earnings>>
     /\ <<posts, clicks, earnings>>' # <<posts, clicks, earnings>>
          => /\ resp'.op = "click"
             /\ resp'.outcome = "200_ok"]_vars

\* a request that had inserted its click row, or had credited the wallet
\* as well, was ended by a storage error and nothing of it is left
C7_Witness ==
  /\ resp.op = "click" /\ resp.outcome = "500_failed"
  /\ resp.at \in {"credit", "count"}
  /\ ClicksOf(resp.user, resp.arg) = {}
  /\ settled[resp.user][resp.arg] = 0
  /\ earnings[resp.user] = 0

\* C8: a submit-click for a pair that already has a click, or that loses a
\* race for the pair, is answered with the duplicate-submission outcome
\* and not with the generic failure.
C8_DuplicateIsConflict ==
  /\ resp.op = "click"
  /\ resp.at \in {"selClicks", "insert"}
  /\ ClicksOf(resp.user, resp.arg) # {}
  => resp.outcome = "400_duplicate"

\* C9: a submit-click that was in flight when a settlement at the click
\* limit deleted its post is answered NotFound, and leaves no wallet
\* credit and no click row.
C9_RacedRequestNotFound ==
  resp.op = "click" /\ resp.raced
  => /\ resp.outcome = "404_not_found"
     /\ ClicksOf(resp.user, resp.arg) = {}
     /\ settled[resp.user][resp.arg] = 0

\* C2: a successful withdraw request followed by the decline of that
\* withdrawal, with no other change of the wallet in between, leaves the
\* balance at its value before the request.
C2_DeclineRestoresBalance ==
  /\ resp.op = "process" /\ resp.outcome = "200_ok"
  /\ withdrawals[resp.arg].status = "declined"
  /\ withdrawals[resp.arg].clean
  /\ withdrawals[resp.arg].resolved = 1
  => earnings[withdrawals[resp.arg].user_id] = withdrawals[resp.arg].before

\* C4: whatever the interleaving of the withdraw requests of a user, the
\* wallet balance is never negative.
C4_BalanceNeverNegative == \A u \in Users : earnings[u] >= 0

\* C5: whatever the interleaving of the resolve requests on a withdrawal,
\* exactly one of them changes its status and the wallet is credited back
\* at most once.
C5_ResolvedOnce ==
  \A id \in DOMAIN withdrawals :
    /\ withdrawals[id].resolved <= 1
    /\ withdrawals[id].refunds <= 1

\* C6: the status of a withdrawal only moves from pending to approved or
\* declined; once it is approved or declined its status, note and
\* timestamp never change again, and a resolve request that arrives then
\* is answered with the already-processed error.
C6_TerminalStatus ==
  [][/\ \A id \in DOMAIN withdrawals :
          withdrawals[id].status # "pending"
          => /\ withdrawals'[id].status = withdrawals[id].status
             /\ withdrawals'[id].admin_notes = withdrawals[id].admin_notes
             /\ withdrawals'[id].processed_at = withdrawals[id].processed_at
     /\ resp'.op = "process" /\ resp'.late /\ resp'.at # "validate"
          => /\ resp'.outcome = "404_processed"
             /\ earnings' = earnings]_vars

\* C10: a request that presents a valid session token on an authenticated
\* endpoint (user and admin routes, /me) leaves the expiry of the session
\* at the time of the request plus 7 days, or later when a later request
\* has moved it again.
C10_SessionSlides ==
  /\ resp.op \in {"user", "admin", "me"}
  /\ resp.outcome \in {"200_handler", "200_user"}
  /\ sessions[resp.arg].exists
  => /\ sessions[resp.arg].expires_at >= resp.stamp + SessionDays
     /\ sessions[resp.arg].expires_at <= now + SessionDays

\* C11: a request that arrives with no token, an unknown token, a
\* logged-out token or a token whose session has expired is answered
\* Unauthenticated (401) and does not reach the handler of a user or admin
\* route.
C11_InvalidTokenRejected ==
  /\ resp.op \in {"user", "admin"} /\ resp.late
       => resp.outcome \in {"401_no_session", "401_invalid_session"}
  /\ resp.op = "user" /\ resp.outcome = "200_handler"
       => ValidSession(resp.arg)

\* a request presented the token of a session that is still stored but
\* whose expiry has passed, and was turned away by the middleware
C11_Witness ==
  /\ resp.op \in {"user", "admin"} /\ resp.late
  /\ resp.at = "mwSelect"
  /\ resp.outcome = "401_invalid_session"
  /\ resp.arg \in Tokens
  /\ sessions[resp.arg].exists
  /\ sessions[resp.arg].expires_at <= now

\* C14: a withdraw request whose amount is not positive, is below the
\* global minimum or the minimum of its method, or exceeds the balance
\* creates no withdrawal row: every row is for a positive amount of at
\* least the global minimum.
C14_WithdrawValidated ==
  \A id \in DOMAIN withdrawals :
    /\ withdrawals[id].amount > 0
    /\ withdrawals[id].amount >= GlobalMinimum

\* C15: a successful withdraw request of amount a by a user with balance
\* b >= a commits a balance of exactly b - a and exactly one new row,
\* pending, of amount a; a withdraw request that ends otherwise changes
\* neither the wallets nor the withdrawals.
C15_WithdrawExact ==
  [][\A r \in Req :
       req[r].op = "withdraw" /\ InFlight(r) /\ req'[r].pc = "idle"
       => LET q == req[r] IN
          IF resp'.outcome = "200_ok"
            THEN /\ earnings' = [earnings EXCEPT ![q.user] = @ - q.amount]
                 /\ Len(withdrawals') = Len(withdrawals) + 1
                 /\ withdrawals'[Len(withdrawals')].user_id = q.user
                 /\ withdrawals'[Len(withdrawals')].status = "pending"
                 /\ withdrawals'[Len(withdrawals')].amount = q.amount
            ELSE UNCHANGED <<earnings, withdrawals>>]_vars

\* C16: the approval of a withdrawal changes only the status, the
\* resolution timestamp and the note of that withdrawal; the wallets and
\* every other withdrawal stay as they were.
C16_ApproveFrame ==
  [][\A r \in Req :
       /\ req[r].op = "process" /\ req[r].status = "approved"
       /\ InFlight(r) /\ req'[r].pc = "idle"
       => /\ earnings' = earnings
          /\ DOMAIN withdrawals' = DOMAIN withdrawals
          /\ \A id \in DOMAIN withdrawals :
               IF id = req[r].arg
                 THEN /\ withdrawals'[id].user_id = withdrawals[id].user_id
                      /\ withdrawals'[id].amount = withdrawals[id].amount
                 ELSE withdrawals'[id] = withdrawals[id]]_vars

\* a pending withdrawal has been approved, and the wallet is where the
\* withdraw request left it
C16_Witness ==
  /\ resp.op = "process" /\ resp.outcome = "200_ok"
  /\ withdrawals[resp.arg].status = "approved"
  /\ withdrawals[resp.arg].admin_notes # ""
  /\ withdrawals[resp.arg].resolved = 1
  /\ withdrawals[resp.arg].refunds = 0
  /\ withdrawals[resp.arg].clean
  /\ earnings[withdrawals[resp.arg].user_id] < withdrawals[resp.arg].before

\* C17: logout deletes the session of the presented token and no other
\* one, and answers success; with no token, an unknown token or a token
\* already logged out it answers success and changes nothing; a deleted
\* session never comes back, and a request that presents its token
\* afterwards is answered Unauthenticated.
C17_LogoutIdempotent ==
  [][/\ resp'.op = "logout"
          => /\ resp'.outcome = "200_logged_out"
             /\ \A t \in Tokens :
                  IF t = resp'.arg THEN ~sessions'[t].exists
                                   ELSE sessions'[t] = sessions[t]
             /\ (resp'.arg \notin Tokens \/ ~sessions[resp'.arg].exists)
                  => sessions' = sessions
             /\ UNCHANGED <<sreq, now, earnings, withdrawals, posts, clicks>>
     /\ \A t \in Tokens :
          sessions[t].issued /\ ~sessions[t].exists => ~sessions'[t].exists
     /\ (/\ resp'.op \in {"user", "admin", "me"}
         /\ resp'.late
         /\ resp'.arg \in Tokens
         /\ sessions[resp'.arg].issued
         /\ ~sessions[resp'.arg].exists)
        => resp'.outcome = "401_invalid_session"]_vars

\* a second logout with a token whose session an earlier logout deleted,
\* long before any expiry, while the session of another token is kept
C17_Witness ==
  /\ resp.op = "logout" /\ resp.late /\ resp.outcome = "200_logged_out"
  /\ resp.arg \in Tokens
  /\ sessions[resp.arg].issued /\ ~sessions[resp.arg].exists
  /\ now < SessionDays
  /\ \E t \in Tokens : t # resp.arg /\ sessions[t].exists

\* ========================================================= email queue
NonMailVars == <<posts, clicks, earnings, withdrawals, sessions, now, req,
                 sreq, settled, AuthVars>>

RECURSIVE SeqToSet(_)
SeqToSet(q) == IF q = <<>> THEN {} ELSE {Head(q)} \cup SeqToSet(Tail(q))

Min(a, b) == IF a < b THEN a ELSE b

\* id: uuidv4() of the next job pushed; 0 when the ids are used up
NextJob ==
  IF \E j \in Jobs : ~mail[j].pushed
    THEN CHOOSE j \in Jobs : /\ ~mail[j].pushed
                             /\ \A o \in Jobs : ~mail[o].pushed => j <= o
    ELSE 0

\* a handler pushes a job after its commit: emailQueue.push({...})
Enqueue(j) ==
  /\ j = NextJob
  /\ emailQueue' = Append(emailQueue, j)
  /\ mail' = [mail EXCEPT ![j].pushed = TRUE]
  /\ resp' = NoResp
  /\ UNCHANGED processingEmails
  /\ UNCHANGED NonMailVars

\* emailQueue.splice(0, 5): the jobs taken off the head of the queue
Batch(q) == SubSeq(q, 1, Min(BatchSize, Len(q)))

\* the jobs of a batch that are marked as processing and scheduled: every
\* one that is not processing already
ScheduledButFirst(batch) == SeqToSet(Tail(batch)) \ processingEmails
Scheduled(batch) == SeqToSet(batch) \ processingEmails

\* the timer fires: a batch is spliced off the queue and every job of it
\* that is not being dispatched already is marked and scheduled
ProcessEmailQueue ==
  /\ ~(Len(emailQueue) = 0 \/ Cardinality(processingEmails) >= ConcurrencyCap)
  /\ emailQueue' = SubSeq(emailQueue, Len(Batch(emailQueue)) + 1,
                          Len(emailQueue))
  /\ processingEmails' = processingEmails \cup Scheduled(Batch(emailQueue))
  /\ resp' = NoResp
  /\ UNCHANGED mail
  /\ UNCHANGED NonMailVars

\* sendVerificationCode / sendPermanentLoginCode: transporter.sendMail
\* inside try, and "return true" both after it and in the catch block, so
\* the call throws in no case
SendThrows(accepted) == FALSE

\* the scheduled callback of a job runs: the send, the catch block with
\* the retry, and the finally block
DispatchJob(j, accepted) ==
  /\ j \in processingEmails
  /\ LET sent == [mail EXCEPT ![j].attempts = @ + 1,
                              ![j].delivered = @ \/ accepted]
     IN IF SendThrows(accepted) /\ mail[j].retries < RetryCeiling
          THEN /\ mail' = [sent EXCEPT ![j].retries = @ + 1]
               /\ emailQueue' = Append(emailQueue, j)
          ELSE /\ mail' = sent
               /\ UNCHANGED emailQueue
  /\ processingEmails' = processingEmails \ {j}
  /\ resp' = NoResp
  /\ UNCHANGED NonMailVars

InitEmail ==
  /\ posts = [p \in Posts |-> NoPost]
  /\ clicks = {}
  /\ earnings = [u \in Users |-> 0]
  /\ withdrawals = <<>>
  /\ req = [r \in Req |-> Idle]
  /\ settled = [u \in Users |-> [p \in Posts |-> 0]]
  /\ InitOther

NextEmail ==
  \/ \E j \in Jobs : Enqueue(j)
  \/ ProcessEmailQueue
  \/ \E j \in Jobs, accepted \in BOOLEAN : DispatchJob(j, accepted)

SpecEmail == InitEmail /\ [][NextEmail]_vars

\* C18: a job whose dispatch to the mailer failed is enqueued again until
\* it has been retried 3 times; no job leaves the queue undelivered before
\* that.
C18_RetryUntilCeiling ==
  \A j \in Jobs :
    /\ mail[j].pushed
    /\ j \notin SeqToSet(emailQueue)
    /\ j \notin processingEmails
    /\ ~mail[j].delivered
    => mail[j].attempts = RetryCeiling + 1

\* ======================================================== registration
Handles == 1..NumHandles
CodeValues == 1..NumCodeValues

NonAuthVars == <<posts, clicks, earnings, withdrawals, now, req, sreq,
                 settled, processingEmails, userCache>>

\* ORDER BY letter: the labels compared character by character
RECURSIVE LabelLess(_, _)
LabelLess(a, b) ==
  IF b = <<>> THEN FALSE
  ELSE IF a = <<>> THEN TRUE
  ELSE IF Head(a) # Head(b) THEN Head(a) < Head(b)
  ELSE LabelLess(Tail(a), Tail(b))

Lowest(bs) ==
  CHOOSE b \in bs : \A o \in bs : o = b \/ LabelLess(b.letter, o.letter)

Highest(bs) ==
  CHOOSE b \in bs : \A o \in bs : o = b \/ LabelLess(o.letter, b.letter)

\* WHERE is_active = TRUE AND user_count < 1000
OpenBatches(bs) == {b \in bs : b.is_active /\ b.user_count < Capacity}

\* getNextBatch, the label it mints when no batch is open:
\* String.fromCharCode(lastLetter.charCodeAt(0) + 1), or 'A' on an empty
\* table
NextLetter(bs) ==
  IF bs = {} THEN Label(CodeA) ELSE Label(Head(Highest(bs).letter) + 1)

\* getNextBatch, the label it returns
GetNextBatch(bs) ==
  IF OpenBatches(bs) # {} THEN Lowest(OpenBatches(bs)).letter
                          ELSE NextLetter(bs)

\* getNextBatch, the table it leaves: INSERT IGNORE INTO batches
\* (letter, user_count, is_active) VALUES (?, 0, TRUE) when it mints
AfterGetNextBatch(bs) ==
  IF OpenBatches(bs) # {} \/ \E b \in bs : b.letter = NextLetter(bs)
    THEN bs
    ELSE bs \cup {[letter |-> NextLetter(bs), is_active |-> TRUE,
                   user_count |-> 0, members |-> 0]}

\* createNextBatch of db/database.js, the label after lastLetter: 'AA'
\* after 'Z', the next letter after a single letter, and otherwise the
\* label with its last character advanced
CreateNextBatchLabel(l) ==
  IF l = Label(CodeZ) THEN <<CodeA, CodeA>>
  ELSE IF Len(l) = 1 THEN Label(Head(l) + 1)
  ELSE [l EXCEPT ![Len(l)] = @ + 1]

\* the history column members follows the rows of users
Joined(bs, l) ==
  {IF b.letter = l THEN [b EXCEPT !.members = @ + 1] ELSE b : b \in bs}

Left(bs, l) ==
  {IF b.letter = l THEN [b EXCEPT !.members = @ - 1] ELSE b : b \in bs}

\* UPDATE batches SET user_count = user_count + 1 WHERE letter = ?
Counted(bs, l) ==
  {IF b.letter = l THEN [b EXCEPT !.user_count = @ + 1] ELSE b : b \in bs}

\* cleanupOldCodes: DELETE FROM verification_codes WHERE email = ? AND
\* type = ? AND (expires_at < NOW() OR used = TRUE)
CleanupOldCodes(cs, e, type) ==
  {c \in cs : ~(/\ c.email = e /\ c.type = type
                /\ (c.expires_at < clock \/ c.used))}

\* INSERT INTO verification_codes (email, code, type, expires_at)
InsertCode(cs, e, cv, type, life) ==
  cs \cup {[id |-> codeSeq + 1, email |-> e, code |-> cv, type |-> type,
            expires_at |-> clock + life, used |-> FALSE]}

\* emailQueue.push({ id: uuidv4(), type, email, code, retries: 0 })
PushJob(type, e, code) ==
  /\ emailQueue' = Append(emailQueue, NextJob)
  /\ mail' = [mail EXCEPT ![NextJob].pushed = TRUE,
                          ![NextJob].type = type,
                          ![NextJob].email = e,
                          ![NextJob].code = code]

AuthResponse(op, e, arg, out) ==
  [NoResp EXCEPT !.op = op, !.user = e, !.arg = arg, !.outcome = out]

\* UNIQUE on users.permanent_login_code: the insert of a row with a code
\* that another row holds is refused with ER_DUP_ENTRY
PermCodeTaken(as, pc) ==
  \E x \in Emails : as[x].exists /\ as[x].permanent_login_code = pc

\* POST /api/auth/register with email e and instagramId ig (0: missing);
\* pc is the value of generateUniquePermanentCode(), cv of generateCode()
Register(e, ig, pc, cv) ==
  /\ NextJob # 0
  /\ codeSeq < MaxCodes
  /\ LET old == accounts[e]
         igCount == Cardinality({x \in Emails : /\ accounts[x].exists
                                                /\ accounts[x].instagram_id = ig})
         deleted == IF old.exists THEN [accounts EXCEPT ![e] = NoAccount]
                                  ELSE accounts
         left == IF old.exists THEN Left(batches, old.batch_letter)
                               ELSE batches
         batchLetter == GetNextBatch(left)
         minted == AfterGetNextBatch(left)
         out == IF ig = 0 THEN "400_required"
                ELSE IF old.exists /\ old.is_verified THEN "400_email_taken"
                ELSE IF igCount > 0 THEN "400_instagram_taken"
                ELSE IF PermCodeTaken(deleted, pc) THEN "500_conflict"
                ELSE "200_ok"
     IN /\ resp' = AuthResponse("register", e, ig, out)
        /\ IF out = "200_ok"
             THEN /\ accounts' = [deleted EXCEPT ![e] =
                        [exists |-> TRUE, id |-> NumEmails + codeSeq + 1,
                         is_verified |-> FALSE,
                         instagram_id |-> ig, batch_letter |-> batchLetter,
                         permanent_login_code |-> pc]]
                  /\ batches' = Counted(Joined(minted, batchLetter),
                                        batchLetter)
                  /\ codes' = InsertCode(CleanupOldCodes(codes, e, "register"),
                                         e, cv, "register", RegisterCodeLife)
                  /\ codeSeq' = codeSeq + 1
                  /\ PushJob("verification", e, cv)
             ELSE UNCHANGED <<accounts, batches, codes, codeSeq, emailQueue,
                              mail>>
  /\ UNCHANGED <<clock, spent, vreq, sessions>>
  /\ UNCHANGED NonAuthVars

\* the tables after some use: labels up to Label(last), the last batch
\* holding count users, and the verified account of email 1 among them
\* when it is not empty
InitRegister ==
  /\ posts = [p \in Posts |-> NoPost]
  /\ clicks = {}
  /\ earnings = [u \in Users |-> 0]
  /\ withdrawals = <<>>
  /\ req = [r \in Req |-> Idle]
  /\ settled = [u \in Users |-> [p \in Posts |-> 0]]
  /\ InitMail
  /\ sessions = InitSessionRows
  /\ now = 0
  /\ sreq = SIdle
  /\ resp = NoResp
  /\ codes = {}
  /\ codeSeq = 0
  /\ clock = 0
  /\ spent = {}
  /\ vreq = [s \in VSlots |-> VIdle]
  /\ userCache = [pc \in PermCodes |-> 0]
  /\ \E last \in {CodeA, CodeZ - 1, CodeZ} :
       /\ batches = BatchTable(last, IF last = CodeA THEN 0 ELSE Capacity - 1)
       /\ \/ accounts = [e \in Emails |-> NoAccount]
          \/ /\ last # CodeA
             /\ accounts = [e \in Emails |->
                  IF e = 1 THEN [exists |-> TRUE, id |-> e,
                                 is_verified |-> TRUE,
                                 instagram_id |-> 1,
                                 batch_letter |-> Label(last),
                                 permanent_login_code |-> 1]
                           ELSE NoAccount]

NextRegister ==
  \E e \in Emails, ig \in Handles \cup {0}, pc \in PermCodes,
     cv \in CodeValues : Register(e, ig, pc, cv)

SpecRegister == InitRegister /\ [][NextRegister]_vars

\* C13: no two rows of users hold the same permanent login code, and a
\* generated code that collides with a stored one is replaced before the
\* insert, so that no registration ends in the code conflict.
C13_PermanentCodeUnique ==
  /\ \A x, y \in Emails :
       /\ accounts[x].exists /\ accounts[y].exists /\ x # y
       => accounts[x].permanent_login_code # accounts[y].permanent_login_code
  /\ resp.op = "register" => resp.outcome # "500_conflict"

\* C19: the batch given to a registration is the lowest-lettered active
\* batch with a count below capacity, or, when there is none, a new batch
\* with the next label in sequence, which after "Z" is a multi-letter
\* label.
C19_BatchAssignment ==
  [][resp'.op = "register" /\ resp'.outcome = "200_ok"
       => LET old == accounts[resp'.user]
              bs == IF old.exists THEN Left(batches, old.batch_letter)
                                  ELSE batches
              expected ==
                IF OpenBatches(bs) # {} THEN Lowest(OpenBatches(bs)).letter
                ELSE CreateNextBatchLabel(Highest(bs).letter)
          IN /\ accounts'[resp'.user].batch_letter = expected
             /\ \E b \in batches' : b.letter = expected]_vars

\* C20: after any sequence of committed registrations, the recorded count
\* of every batch is the number of rows of users that carry its label.
C20_BatchCountMatches ==
  \A b \in batches : b.user_count = b.members

\* ====================================================== one-time codes
\* WHERE ... AND vc.expires_at > NOW() AND vc.used = FALSE
CodeLiveNoExpiry(c) == ~c.used
CodeLive(c) == c.expires_at > clock /\ ~c.used

\* the rows of verification_codes a verify request with email e and code
\* cv selects
Matching(e, cv, type) ==
  {c \in codes : /\ c.email = e /\ c.code = cv /\ c.type = type
                 /\ CodeLive(c)}

\* history: the code was verified once, or it has expired
Dead(c) == (\E x \in spent : x.id = c.id) \/ c.expires_at <= clock

\* history: every code issued for email e with value cv has been verified
\* once or has expired
NoFreshCode(e, cv, type) ==
  \A c \in codes : c.email = e /\ c.code = cv /\ c.type = type => Dead(c)

VerifyResponse(op, e, cv, out, id, late) ==
  [NoResp EXCEPT !.op = op, !.user = e, !.arg = cv, !.outcome = out,
                 !.stamp = id, !.late = late]

CodeVars == <<posts, clicks, earnings, withdrawals, now, req, sreq, settled,
              processingEmails, batches, userCache>>

\* POST /api/auth/resend-verification for email e; cv is generateCode()
ResendVerification(e, cv) ==
  /\ NextJob # 0
  /\ codeSeq < MaxCodes
  /\ LET out == IF ~accounts[e].exists THEN "400_not_found"
                ELSE IF accounts[e].is_verified THEN "400_verified"
                ELSE "200_ok"
     IN /\ resp' = AuthResponse("resend-verification", e, cv, out)
        /\ IF out = "200_ok"
             THEN /\ codes' = InsertCode(CleanupOldCodes(codes, e, "register"),
                                         e, cv, "register", RegisterCodeLife)
                  /\ codeSeq' = codeSeq + 1
                  /\ PushJob("verification", e, cv)
             ELSE UNCHANGED <<codes, codeSeq, emailQueue, mail>>
  /\ UNCHANGED <<accounts, clock, spent, vreq, sessions>>
  /\ UNCHANGED CodeVars

\* POST /api/auth/login with email e and no permanent code; cv is
\* generateCode()
Login(e, cv) ==
  /\ NextJob # 0
  /\ codeSeq < MaxCodes
  /\ LET out == IF ~accounts[e].exists THEN "400_not_found"
                ELSE IF ~accounts[e].is_verified THEN "400_unverified"
                ELSE IF accounts[e].permanent_login_code # 0
                  THEN "200_use_permanent"
                ELSE "200_ok"
     IN /\ resp' = AuthResponse("login", e, cv, out)
        /\ IF out = "200_ok"
             THEN /\ codes' = InsertCode(CleanupOldCodes(codes, e, "login"),
                                         e, cv, "login", LoginCodeLife)
                  /\ codeSeq' = codeSeq + 1
                  /\ PushJob("login", e, cv)
             ELSE UNCHANGED <<codes, codeSeq, emailQueue, mail>>
  /\ UNCHANGED <<accounts, clock, spent, vreq, sessions>>
  /\ UNCHANGED CodeVars

\* uuidv4(): the session id of the next login, a token never issued
FreshToken(t) ==
  /\ ~sessions[t].issued
  /\ \A o \in Tokens : ~sessions[o].issued => t <= o

\* the slot that takes the next verify request
FreeSlot(s) ==
  /\ vreq[s].pc = "idle"
  /\ \A o \in VSlots : vreq[o].pc = "idle" => s <= o

\* POST /api/auth/verify-email with email e and code cv, up to its SELECT:
\* no row ends the request with 400, a row is kept for the writes
VerifyEmailSelect(s, e, cv) ==
  /\ FreeSlot(s)
  /\ LET rows == {c \in Matching(e, cv, "register") :
                    accounts[e].exists /\ ~accounts[e].is_verified}
         late == NoFreshCode(e, cv, "register")
     IN IF rows = {}
          THEN /\ resp' = VerifyResponse("verify-email", e, cv, "400_invalid",
                                         0, late)
               /\ UNCHANGED vreq
          ELSE \E c \in rows :
                 /\ vreq' = [vreq EXCEPT ![s] =
                      [op |-> "verify-email", pc |-> "selected", email |-> e,
                       code |-> cv, code_id |-> c.id,
                       user_id |-> accounts[e].id,
                       permanent_login_code |->
                          accounts[e].permanent_login_code,
                       late |-> late]]
                 /\ resp' = NoResp
  /\ UNCHANGED <<accounts, codes, codeSeq, clock, spent, sessions, emailQueue,
                 mail>>
  /\ UNCHANGED CodeVars

\* UPDATE verification_codes SET used = TRUE WHERE id = ?
MarkUsed(cs, id) ==
  {IF c.id = id THEN [c EXCEPT !.used = TRUE] ELSE c : c \in cs}

\* history: the row of the code a verification accepts
Spend(q, type) ==
  spent \cup {[id |-> q.code_id, email |-> q.email, code |-> q.code,
               type |-> type]}

\* verify-email, its writes and commit: the code is marked used, the user
\* row is marked verified, the used and expired codes of the email are
\* deleted, and the permanent code is queued for sending
VerifyEmailCommit(s) ==
  LET q == vreq[s]
  IN /\ q.pc = "selected"
     /\ q.op = "verify-email"
     /\ NextJob # 0
     /\ codes' = CleanupOldCodes(MarkUsed(codes, q.code_id), q.email,
                                 "register")
     /\ accounts' = [e \in Emails |->
          IF accounts[e].exists /\ accounts[e].id = q.user_id
            THEN [accounts[e] EXCEPT !.is_verified = TRUE]
            ELSE accounts[e]]
     /\ spent' = Spend(q, "register")
     /\ PushJob("permanent", q.email, q.permanent_login_code)
     /\ vreq' = [vreq EXCEPT ![s] = VIdle]
     /\ resp' = VerifyResponse("verify-email", q.email, q.code, "200_ok",
                               q.code_id, q.late)
     /\ UNCHANGED <<codeSeq, clock, sessions>>
     /\ UNCHANGED CodeVars

\* POST /api/auth/verify-login with email e and code cv, up to its SELECT
VerifyLoginSelect(s, e, cv) ==
  /\ FreeSlot(s)
  /\ LET rows == Matching(e, cv, "login")
         late == NoFreshCode(e, cv, "login")
     IN IF rows = {}
          THEN /\ resp' = VerifyResponse("verify-login", e, cv, "400_invalid",
                                         0, late)
               /\ UNCHANGED vreq
          ELSE \E c \in rows :
                 /\ vreq' = [vreq EXCEPT ![s] =
                      [op |-> "verify-login", pc |-> "selected", email |-> e,
                       code |-> cv, code_id |-> c.id, user_id |-> 0,
                       permanent_login_code |-> 0, late |-> late]]
                 /\ resp' = NoResp
  /\ UNCHANGED <<accounts, codes, codeSeq, clock, spent, sessions, emailQueue,
                 mail>>
  /\ UNCHANGED CodeVars

\* verify-login, from the SELECT of the user to the commit: without a user
\* row the request ends with 400; otherwise the code is marked used, the
\* used and expired login codes of the email are deleted and the session
\* with the new id t is inserted
VerifyLoginCommit(s, t) ==
  LET q == vreq[s]
  IN /\ q.pc = "selected"
     /\ q.op = "verify-login"
     /\ FreshToken(t)
     /\ sreq.token # t
     /\ vreq' = [vreq EXCEPT ![s] = VIdle]
     /\ IF ~accounts[q.email].exists
          THEN /\ resp' = VerifyResponse("verify-login", q.email, q.code,
                                         "400_not_found", 0, q.late)
               /\ UNCHANGED <<codes, spent, sessions>>
          ELSE /\ codes' = CleanupOldCodes(MarkUsed(codes, q.code_id),
                                           q.email, "login")
               /\ spent' = Spend(q, "login")
               /\ sessions' = [sessions EXCEPT ![t] =
                    [exists |-> TRUE, issued |-> TRUE,
                     user_id |-> accounts[q.email].id,
                     expires_at |-> now + SessionDays]]
               /\ resp' = VerifyResponse("verify-login", q.email, q.code,
                                         "200_ok", q.code_id, q.late)
     /\ UNCHANGED <<accounts, codeSeq, clock, emailQueue, mail>>
     /\ UNCHANGED CodeVars

\* time passes
ClockTick ==
  /\ clock < MaxClock * ClockStep
  /\ clock' = clock + ClockStep
  /\ resp' = NoResp
  /\ UNCHANGED <<accounts, codes, codeSeq, spent, vreq, sessions, emailQueue,
                 mail>>
  /\ UNCHANGED CodeVars

\* the tables with nobody registered but the verified user of the last
\* email, whose row has no permanent login code
InitCodes ==
  /\ posts = [p \in Posts |-> NoPost]
  /\ clicks = {}
  /\ earnings = [u \in Users |-> 0]
  /\ withdrawals = <<>>
  /\ req = [r \in Req |-> Idle]
  /\ settled = [u \in Users |-> [p \in Posts |-> 0]]
  /\ InitMail
  /\ sessions = InitSessionRows
  /\ now = 0
  /\ sreq = SIdle
  /\ resp = NoResp
  /\ batches = BatchTable(CodeA, 1)
  /\ codes = {}
  /\ codeSeq = 0
  /\ clock = 0
  /\ spent = {}
  /\ vreq = [s \in VSlots |-> VIdle]
  /\ userCache = [pc \in PermCodes |-> 0]
  /\ accounts = [e \in Emails |->
       IF e = NumEmails THEN [exists |-> TRUE, id |-> e, is_verified |-> TRUE,
                              instagram_id |-> 0,
                              batch_letter |-> Label(CodeA),
                              permanent_login_code |-> 0]
                        ELSE NoAccount]

NextCodes ==
  \/ \E e \in Emails, ig \in Handles, pc \in PermCodes, cv \in CodeValues :
       Register(e, ig, pc, cv)
  \/ \E e \in Emails, cv \in CodeValues : ResendVerification(e, cv)
  \/ \E e \in Emails, cv \in CodeValues : Login(e, cv)
  \/ \E s \in VSlots, e \in Emails, cv \in CodeValues :
       VerifyEmailSelect(s, e, cv)
  \/ \E s \in VSlots : VerifyEmailCommit(s)
  \/ \E s \in VSlots, e \in Emails, cv \in CodeValues :
       VerifyLoginSelect(s, e, cv)
  \/ \E s \in VSlots, t \in Tokens : VerifyLoginCommit(s, t)
  \/ ClockTick

SpecCodes == InitCodes /\ [][NextCodes]_vars

\* C12: a verify-email or verify-login call that presents an email and a
\* one-time code whose every issue has already been verified once or has
\* expired is rejected: it is never answered with success, it marks no
\* user verified and it creates no session. (No code is deleted before it
\* is verified or expires, so a code that is gone is one of these.)
C12_SpentCodeRejected ==
  [][/\ \A c \in codes \ codes' :
          (\E x \in spent' : x.id = c.id) \/ c.expires_at <= clock
     /\ resp'.op \in {"verify-email", "verify-login"} /\ resp'.late
          => /\ resp'.outcome # "200_ok"
             /\ accounts' = accounts
             /\ sessions' = sessions
             /\ spent' = spent]_vars

\* a code that a verification has accepted is presented again, and is
\* rejected
C12_Witness ==
  /\ resp.op \in {"verify-email", "verify-login"}
  /\ resp.late
  /\ resp.outcome = "400_invalid"
  /\ \E x \in spent : /\ x.email = resp.user /\ x.code = resp.arg
                      /\ x.type = (IF resp.op = "verify-email"
                                     THEN "register" ELSE "login")

\* ===================================================== the post counter
\* history: the settlements committed for post p by the users of set us
RECURSIVE SettlementsOf(_, _)
SettlementsOf(p, us) ==
  IF us = {} THEN 0
  ELSE LET u == CHOOSE x \in us : TRUE
       IN settled[u][p] + SettlementsOf(p, us \ {u})

\* C22: for every post that still exists, the click counter of the post
\* equals the number of settlements committed for it, whatever the
\* interleaving of the submit-click requests.
C22_CounterCountsSettlements ==
  \A p \in Posts :
    posts[p].exists => posts[p].click_count = SettlementsOf(p, Users)

SpecDrain ==
  /\ InitEmail
  /\ [][NextEmail]_vars
  /\ WF_vars(ProcessEmailQueue)
  /\ \A j \in Jobs : WF_vars(\E accepted \in BOOLEAN : DispatchJob(j, accepted))

\* C28: every job pushed onto the queue is eventually handed to the
\* mailer at least once, no job leaves the queue without being scheduled
\* for dispatch, and the queue is eventually empty for good once the
\* pushes have stopped.
C28_QueueDrains ==
  /\ \A j \in Jobs : mail[j].pushed ~> (mail[j].attempts >= 1)
  /\ [](\A j \in Jobs :
          mail[j].pushed /\ j \notin SeqToSet(emailQueue)
            => j \in processingEmails \/ mail[j].attempts >= 1)
  /\ <>[](emailQueue = <<>>)

\* a full batch has been taken off the queue and all of it dispatched
C28_Witness ==
  /\ emailQueue = <<>>
  /\ processingEmails = {}
  /\ Cardinality({j \in Jobs : mail[j].attempts >= 1}) >= BatchSize

\* C29: the number of jobs in flight at the same time, the size of
\* processingEmails, never exceeds the cap of 5.
C29_ProcessingCapped == Cardinality(processingEmails) <= ConcurrencyCap

\* ================================================ enqueue after commit
\* the type of the code row a job of type t carries
CodeType(t) == IF t = "verification" THEN "register" ELSE "login"

\* C25: a job is pushed onto the email queue only by a request that
\* committed, and the code it carries is in the store when it is pushed:
\* a one-time code as a row of verification_codes, a permanent code as the
\* permanent_login_code of the user row of that email.
C25_EnqueueAfterCommit ==
  [][\A j \in Jobs :
       ~mail[j].pushed /\ mail'[j].pushed
         => /\ resp'.outcome = "200_ok"
            /\ IF mail'[j].type = "permanent"
                 THEN /\ accounts'[mail'[j].email].exists
                      /\ accounts'[mail'[j].email].permanent_login_code =
                           mail'[j].code
                 ELSE \E c \in codes' :
                        /\ c.email = mail'[j].email
                        /\ c.code = mail'[j].code
                        /\ c.type = CodeType(mail'[j].type)]_vars

\* ============================================================ the ledger
\* the amounts requested of the ledger, in mills: 0.10 and 0.105
LedgerAmounts == {10 * Cent, 10 * Cent + (Cent \div 2)}

\* wallets at 0 and posts open for settlement, without a limit or to be
\* deleted at their first click
InitLedger ==
  /\ posts \in [Posts -> {p \in NewPosts :
                            /\ p.is_active
                            /\ p.click_limit <= 1
                            /\ p.auto_delete_enabled <=> p.click_limit = 1}]
  /\ clicks = {}
  /\ earnings = [u \in Users |-> 0]
  /\ withdrawals = <<>>
  /\ req = [r \in Req |-> Idle]
  /\ settled = [u \in Users |-> [p \in Posts |-> 0]]
  /\ InitOther

NextLedger ==
  \/ \E r \in Req, u \in Payees, p \in Posts : ClickBegin(r, u, p)
  \/ \E r \in Req : ClickSelectPost(r)
  \/ \E r \in Req : ClickSelectExisting(r)
  \/ \E r \in Req : ClickInsert(r)
  \/ \E r \in Req : ClickCredit(r)
  \/ \E r \in Req : ClickCount(r)
  \/ \E r \in Req : ClickDeleteClicks(r)
  \/ \E r \in Req : ClickDeletePost(r)
  \/ \E r \in Req : ClickCommit(r)
  \/ \E r \in Req, u \in Payees, a \in LedgerAmounts :
        WithdrawBegin(r, u, "paytm", a, TRUE)
  \/ \E r \in Req : WithdrawSelect(r)
  \/ \E r \in Req : WithdrawInsert(r)
  \/ \E r \in Req : WithdrawDebit(r)
  \/ \E r \in Req : WithdrawCommit(r)
  \/ \E r \in Req, id \in 1..MaxWithdrawals, st \in Statuses \ {"pending"},
        nt \in Notes :
        ProcessBegin(r, id, st, nt)
  \/ \E r \in Req : ProcessSelect(r)
  \/ \E r \in Req : ProcessRefund(r)
  \/ \E r \in Req : ProcessUpdate(r)
  \/ \E r \in Req : ProcessCommit(r)
  \/ \E r \in Req : LockError(r)

SpecLedger == InitLedger /\ [][NextLedger]_vars

\* history: the rewards of the settlements committed for user u on the
\* posts of set ps
RECURSIVE Earned(_, _)
Earned(u, ps) ==
  IF ps = {} THEN 0
  ELSE LET p == CHOOSE x \in ps : TRUE
       IN settled[u][p] * Reward + Earned(u, ps \ {p})

\* the amounts of the withdrawals 1..n of user u that are pending or
\* approved
RECURSIVE Withdrawn(_, _)
Withdrawn(u, n) ==
  IF n = 0 THEN 0
  ELSE Withdrawn(u, n - 1) +
       (IF /\ withdrawals[n].user_id = u
           /\ withdrawals[n].status \in {"pending", "approved"}
          THEN withdrawals[n].amount ELSE 0)

\* C27: in every state, the wallet of each user equals the rewards of the
\* user's committed settlements minus the amounts of the user's
\* withdrawals that are pending or approved.
C27_LedgerBalanced ==
  \A u \in Users :
    earnings[u] = Earned(u, Posts) - Withdrawn(u, Len(withdrawals))

\* ================================================ the gates of /api/user
\* what a client may put into the body next to postId
Bodies ==
  {NoBody, [socialLink |-> 1, autoApprove |-> TRUE, reward |-> 10 * Reward]}

\* the rewards the admin form gave the posts
GateRewards == {Reward, 2 * Reward}

GateVars == <<withdrawals, now, sreq, emailQueue, processingEmails, mail,
              batches, codes, codeSeq, clock, spent, vreq, userCache>>

\* POST /api/user/submit-click with token t: sessionMiddleware (the JOIN
\* of sessions and users, the slide of the expiry), sessionAuth (the same
\* JOIN), then the handler up to beginTransaction; the request takes the
\* lowest free slot
SubmitClick(r, t, p, b) ==
  /\ Free(r)
  /\ \A o \in Req : Free(o) => r <= o
  /\ IF ValidSession(t) /\ HasUser(SessionUser(t))
       THEN /\ Arrive(r, SessionUser(t), p, b)
            /\ sessions' = [sessions EXCEPT
                              ![t].expires_at = now + SessionDays]
       ELSE /\ resp' = [NoResp EXCEPT !.op = "click", !.arg = p,
                                       !.body = b,
                                       !.outcome = "401_unauthorized",
                                       !.at = "session"]
            /\ UNCHANGED <<posts, clicks, earnings, req, settled, sessions>>
  /\ UNCHANGED accounts
  /\ UNCHANGED GateVars

AdminResponse(op, target, out) ==
  [NoResp EXCEPT !.op = op, !.arg = target, !.outcome = out]

\* PUT /api/admin/users/:userId/toggle-verification; the UPDATE waits for
\* the locks other transactions hold on the row
ToggleVerification(u, b) ==
  /\ ~Conflicts(0, <<"X", "users", u, 0>>)
  /\ IF ~HasUser(u)
       THEN /\ resp' = AdminResponse("toggle-verification", u,
                                      "404_not_found")
            /\ UNCHANGED accounts
       ELSE /\ accounts' = [e \in Emails |->
                  IF accounts[e].exists /\ accounts[e].id = u
                    THEN [accounts[e] EXCEPT !.is_verified = b]
                    ELSE accounts[e]]
            /\ resp' = AdminResponse("toggle-verification", u, "200_ok")
  /\ UNCHANGED <<posts, clicks, earnings, req, settled, sessions>>
  /\ UNCHANGED GateVars

\* PUT /api/admin/posts/:postId/toggle-status; the UPDATE waits for the
\* locks other transactions hold on the row
ToggleStatus(p, b) ==
  /\ ~Conflicts(0, <<"X", "posts", p, 0>>)
  /\ IF ~posts[p].exists
       THEN /\ resp' = AdminResponse("toggle-status", p, "404_not_found")
            /\ UNCHANGED posts
       ELSE /\ posts' = [posts EXCEPT ![p].is_active = b]
            /\ resp' = AdminResponse("toggle-status", p, "200_ok")
  /\ UNCHANGED <<clicks, earnings, req, settled, sessions, accounts>>
  /\ UNCHANGED GateVars

\* active posts, without a limit or removed at their first click, with a
\* reward of the set rs
GatePosts(rs) ==
  {[p EXCEPT !.reward_amount = rw] :
     p \in {n \in NewPosts :
              n.is_active /\ n.click_limit <= 1
              /\ (n.auto_delete_enabled <=> (n.click_limit = 1))},
     rw \in rs}

\* verified users, each logged in on the token TokenUser gives them
GateInit(rs) ==
  /\ posts \in [Posts -> GatePosts(rs) \cup {NoPost}]
  /\ clicks = {}
  /\ earnings = [u \in Users |-> 0]
  /\ withdrawals = <<>>
  /\ req = [r \in Req |-> Idle]
  /\ settled = [u \in Users |-> [p \in Posts |-> 0]]
  /\ accounts = [e \in Emails |->
        [NoAccount EXCEPT !.exists = TRUE, !.id = e, !.is_verified = TRUE,
                          !.instagram_id = e, !.batch_letter = Label(CodeA),
                          !.permanent_login_code = 0]]
  /\ batches = BatchTable(CodeA, NumEmails)
  /\ codes = {}
  /\ codeSeq = 0
  /\ clock = 0
  /\ spent = {}
  /\ vreq = [s \in VSlots |-> VIdle]
  /\ userCache = [pc \in PermCodes |-> 0]
  /\ InitMail
  /\ sessions = [t \in Tokens |->
        IF HasUser(TokenUser(t))
          THEN [exists |-> TRUE, issued |-> TRUE, user_id |-> TokenUser(t),
                expires_at |-> SessionDays]
          ELSE NoSession(FALSE)]
  /\ now = 0
  /\ sreq = SIdle
  /\ resp = NoResp

\* submit-click while the admin switches the verification of a user
InitGate == GateInit({Reward})

NextGate ==
  \/ \E r \in Req, t \in Tokens, p \in Posts \cup {0} :
        SubmitClick(r, t, p, NoBody)
  \/ \E u \in Payees, b \in BOOLEAN : ToggleVerification(u, b)
  \/ \E r \in Req : ClickSelectPost(r)
  \/ \E r \in Req : ClickSelectExisting(r)
  \/ \E r \in Req : ClickInsert(r)
  \/ \E r \in Req : ClickCredit(r)
  \/ \E r \in Req : ClickCount(r)
  \/ \E r \in Req : ClickDeleteClicks(r)
  \/ \E r \in Req : ClickDeletePost(r)
  \/ \E r \in Req : ClickCommit(r)
  \/ \E r \in Req : LockError(r)

SpecGate == InitGate /\ [][NextGate]_vars

\* submit-click with bodies that hold more than postId
InitPayload == GateInit(GateRewards)

NextPayload ==
  \/ \E r \in Req, t \in Tokens, p \in Posts \cup {0}, b \in Bodies :
        SubmitClick(r, t, p, b)
  \/ \E r \in Req : ClickSelectPost(r)
  \/ \E r \in Req : ClickSelectExisting(r)
  \/ \E r \in Req : ClickInsert(r)
  \/ \E r \in Req : ClickCredit(r)
  \/ \E r \in Req : ClickCount(r)
  \/ \E r \in Req : ClickDeleteClicks(r)
  \/ \E r \in Req : ClickDeletePost(r)
  \/ \E r \in Req : ClickCommit(r)
  \/ \E r \in Req : LockError(r)

SpecPayload == InitPayload /\ [][NextPayload]_vars

\* submit-click while the admin switches the posts on and off
InitStatus == GateInit({Reward})

NextStatus ==
  \/ \E r \in Req, t \in Tokens, p \in Posts \cup {0} :
        SubmitClick(r, t, p, NoBody)
  \/ \E p \in Posts, b \in BOOLEAN : ToggleStatus(p, b)
  \/ \E r \in Req : ClickSelectPost(r)
  \/ \E r \in Req : ClickSelectExisting(r)
  \/ \E r \in Req : ClickInsert(r)
  \/ \E r \in Req : ClickCredit(r)
  \/ \E r \in Req : ClickCount(r)
  \/ \E r \in Req : ClickDeleteClicks(r)
  \/ \E r \in Req : ClickDeletePost(r)
  \/ \E r \in Req : ClickCommit(r)
  \/ \E r \in Req : LockError(r)

SpecStatus == InitStatus /\ [][NextStatus]_vars

\* C21: a click is settled only for a caller whose verified flag was true
\* when the request arrived; a request of a caller whose flag was false is
\* answered with a failure and leaves rows, wallets and counters alone
C21_VerifiedCallersOnly ==
  [][resp'.op = "click" /\ ~resp'.verified
       => /\ resp'.outcome # "200_ok"
          /\ clicks' = clicks /\ earnings' = earnings /\ posts' = posts]_vars

\* C24: a settled click credits the wallet with the reward stored on the
\* post and, unless the post is removed with its rows, stores a click row
\* with that reward, whatever else the body of the request held
C24_RewardFromPostOnly ==
  [][resp'.op = "click" /\ resp'.outcome = "200_ok"
       => LET u == resp'.user
              p == resp'.arg
          IN /\ posts[p].exists
             /\ earnings' = [earnings EXCEPT
                   ![u] = Round2(@ + posts[p].reward_amount)]
             /\ ~resp'.autoDeleted
                  => clicks' \ clicks =
                       {[user |-> u, post |-> p,
                         reward |-> posts[p].reward_amount, n |-> 1]}]_vars

\* a click was settled whose body named a reward other than the one of
\* the post
C24_Witness ==
  /\ resp.op = "click" /\ resp.outcome = "200_ok"
  /\ resp.body.reward # 0
  /\ \E c \in clicks : /\ c.user = resp.user /\ c.post = resp.arg
                        /\ c.reward # resp.body.reward
  /\ earnings[resp.user] # resp.body.reward

\* C26: the SELECT of the post ends the request with 404 when no row has
\* the id and with 400 (inactive) when the row is not active, and in both
\* cases no table changes
C26_MissingOrInactivePost ==
  [][\A r \in Req :
       req[r].op = "click" /\ req[r].pc = "selPost"
       /\ req'[r].pc # "selPost"
       => LET post == posts[req[r].arg]
          IN /\ ~post.exists
                  => /\ resp'.op = "click"
                     /\ resp'.outcome = "404_not_found"
                     /\ clicks' = clicks /\ earnings' = earnings
                     /\ posts' = posts
             /\ post.exists /\ ~post.is_active
                  => /\ resp'.op = "click"
                     /\ resp'.outcome = "400_inactive"
                     /\ clicks' = clicks /\ earnings' = earnings
                     /\ posts' = posts]_vars

\* a request was refused for a post that took a click while it was active,
\* and another for an id without a row
C26_Witness ==
  /\ resp.op = "click" /\ resp.outcome = "400_inactive"
  /\ \E c \in clicks : c.post = resp.arg

\* ============================================ login by permanent code
\* the verified rows of users with permanent_login_code = pc
VerifiedHolders(pc) ==
  {e \in Emails : /\ accounts[e].exists /\ accounts[e].is_verified
                   /\ accounts[e].permanent_login_code = pc}

PermVars == <<posts, clicks, earnings, withdrawals, now, req, sreq, settled,
              emailQueue, processingEmails, mail, batches, codes, codeSeq,
              clock, spent>>

\* POST /api/auth/login with permanentCode pc, up to the INSERT of the
\* session: the user comes from userCache or, when the cache has no entry,
\* from the SELECT of a verified user with the code, which fills the cache;
\* late is history: no verified user had the code when the request arrived
PermanentLoginLookup(s, pc) ==
  /\ FreeSlot(s)
  /\ LET late == VerifiedHolders(pc) = {}
         q(u) == [VIdle EXCEPT !.op = "permanent-login", !.pc = "insert",
                               !.user_id = u, !.permanent_login_code = pc,
                               !.late = late]
     IN IF userCache[pc] # 0
          THEN /\ vreq' = [vreq EXCEPT ![s] = q(userCache[pc])]
               /\ resp' = NoResp
               /\ UNCHANGED userCache
          ELSE IF VerifiedHolders(pc) = {}
            THEN /\ resp' = VerifyResponse("permanent-login", 0, pc,
                                           "400_invalid", 0, late)
                 /\ UNCHANGED <<vreq, userCache>>
            ELSE \E e \in VerifiedHolders(pc) :
                   /\ userCache' = [userCache EXCEPT ![pc] = accounts[e].id]
                   /\ vreq' = [vreq EXCEPT ![s] = q(accounts[e].id)]
                   /\ resp' = NoResp
  /\ UNCHANGED <<accounts, sessions>>
  /\ UNCHANGED PermVars

\* INSERT INTO sessions with the new id t and the 200. Without the row of
\* users the foreign key refuses the insert; nothing catches the error, the
\* rejection is unhandled and ends the process: the requests in flight and
\* the cache are gone
PermanentLoginInsert(s, t) ==
  LET q == vreq[s]
  IN /\ q.op = "permanent-login" /\ q.pc = "insert"
     /\ FreshToken(t)
     /\ IF HasUser(q.user_id)
          THEN /\ sessions' = [sessions EXCEPT ![t] =
                    [exists |-> TRUE, issued |-> TRUE, user_id |-> q.user_id,
                     expires_at |-> now + SessionDays]]
               /\ vreq' = [vreq EXCEPT ![s] = VIdle]
               /\ resp' = VerifyResponse("permanent-login", q.user_id,
                                         q.permanent_login_code, "200_ok",
                                         t, q.late)
               /\ UNCHANGED userCache
          ELSE /\ vreq' = [o \in VSlots |-> VIdle]
               /\ userCache' = [pc \in PermCodes |-> 0]
               /\ resp' = VerifyResponse("permanent-login", q.user_id,
                                         q.permanent_login_code,
                                         "unhandled_rejection", 0, q.late)
               /\ UNCHANGED sessions
     /\ UNCHANGED accounts
     /\ UNCHANGED PermVars

\* setTimeout(() => userCache.delete(cacheKey), 5 * 60 * 1000) fires
CacheExpire(pc) ==
  /\ userCache[pc] # 0
  /\ userCache' = [userCache EXCEPT ![pc] = 0]
  /\ resp' = NoResp
  /\ UNCHANGED <<accounts, sessions, vreq>>
  /\ UNCHANGED PermVars

\* DELETE /api/admin/users/:userId: the clicks, the withdrawals and the
\* row of the user; the sessions of the user go by ON DELETE CASCADE. The
\* id of a withdrawal is its position in the sequence, so a deleted one
\* keeps its place as a row of no user (user_id 0)
DeleteUser(u) ==
  /\ ~Conflicts(0, <<"X", "users", u, 0>>)
  /\ IF ~HasUser(u)
       THEN /\ resp' = AdminResponse("delete-user", u, "404_not_found")
            /\ UNCHANGED <<accounts, clicks, withdrawals, earnings, sessions>>
       ELSE /\ accounts' = [e \in Emails |->
                  IF accounts[e].exists /\ accounts[e].id = u
                    THEN NoAccount ELSE accounts[e]]
            /\ clicks' = {c \in clicks : c.user # u}
            /\ withdrawals' = [i \in DOMAIN withdrawals |->
                  IF withdrawals[i].user_id = u
                    THEN [withdrawals[i] EXCEPT !.user_id = 0]
                    ELSE withdrawals[i]]
            /\ earnings' = [earnings EXCEPT ![u] = 0]
            /\ sessions' = [t \in Tokens |->
                  IF sessions[t].exists /\ sessions[t].user_id = u
                    THEN NoSession(TRUE) ELSE sessions[t]]
            /\ resp' = AdminResponse("delete-user", u, "200_ok")
  /\ UNCHANGED <<posts, req, settled, now, sreq, emailQueue, processingEmails,
                 mail, batches, codes, codeSeq, clock, spent, vreq,
                 userCache>>

\* the users of the first emails registered and verified, each with a
\* permanent code of their own; nobody logged in, the cache empty
InitPermanent ==
  /\ posts = [p \in Posts |-> NoPost]
  /\ clicks = {}
  /\ earnings = [u \in Users |-> 0]
  /\ withdrawals = <<>>
  /\ req = [r \in Req |-> Idle]
  /\ settled = [u \in Users |-> [p \in Posts |-> 0]]
  /\ accounts = [e \in Emails |->
        IF e \in PermCodes
          THEN [NoAccount EXCEPT !.exists = TRUE, !.id = e,
                                 !.is_verified = TRUE, !.instagram_id = e,
                                 !.batch_letter = Label(CodeA),
                                 !.permanent_login_code = e]
          ELSE NoAccount]
  /\ batches = BatchTable(CodeA, Cardinality(Emails \cap PermCodes))
  /\ codes = {}
  /\ codeSeq = 0
  /\ clock = 0
  /\ spent = {}
  /\ vreq = [s \in VSlots |-> VIdle]
  /\ userCache = [pc \in PermCodes |-> 0]
  /\ InitMail
  /\ sessions = InitSessionRows
  /\ now = 0
  /\ sreq = SIdle
  /\ resp = NoResp

NextPermanent ==
  \/ \E s \in VSlots, pc \in PermCodes : PermanentLoginLookup(s, pc)
  \/ \E s \in VSlots, t \in Tokens : PermanentLoginInsert(s, t)
  \/ \E pc \in PermCodes : CacheExpire(pc)
  \/ \E u \in Users, b \in BOOLEAN : ToggleVerification(u, b)
  \/ \E u \in Users : DeleteUser(u)

SpecPermanent == InitPermanent /\ [][NextPermanent]_vars

\* C30: a login by permanent code is answered with a session only if a
\* verified user held the code in the store when the request arrived or
\* holds it when the session is inserted, and every session row refers to
\* a row of users
C30_PermanentLoginNeedsVerifiedUser ==
  [][/\ resp'.op = "permanent-login" /\ resp'.outcome = "200_ok"
        => ~resp'.late \/ VerifiedHolders(resp'.arg) # {}
     /\ \A t \in Tokens :
          sessions'[t].exists
            => \E e \in Emails : /\ accounts'[e].exists
                                 /\ accounts'[e].id = sessions'[t].user_id]_vars

====
